---- MODULE Spec2Model ----
(***************************************************************************)
(* A model of lf-queue: the lock-free multi-producer multi-consumer        *)
(* unbounded queue of src/src/queue.rs, with its nodes (src/src/node.rs)   *)
(* and slots (src/src/slot.rs).                                            *)
(*                                                                         *)
(* Every atomic operation of Inner::push, Inner::pop, Node::wait_next,     *)
(* Slot::wait_filled and Node::drain is one action of a thread, atomics    *)
(* are sequentially consistent, and a spin-with-yield loop is an action    *)
(* that is enabled only once the awaited value is there.  Nodes are        *)
(* numbered in allocation order; a freed node stays in `nodes` and is      *)
(* remembered in `freed`, so that a later access to it is visible.         *)
(***************************************************************************)
EXTENDS Integers, Sequences, FiniteSets, TLC

\* ---------------------------------------------------------------- constants

\* src/src/node.rs: NODE_SIZE under cfg(loom); NODE_CAPACITY = NODE_SIZE - 1.
NODE_SIZE == 4
NODE_CAPACITY == NODE_SIZE - 1

\* src/src/queue.rs
MARK_BIT_SHIFT == 1
MARK_BIT == 1

\* src/src/slot.rs
FILLED == 1
READING == 2
DRAINING == 4

\* ------------------------------------------------------------------- bounds

\* Calls of push with one producer and two consumers.
MaxPush == 6
\* Calls of push with two producers and one consumer.
MaxPushMP == 4
\* Calls of push of a single-threaded run, and its calls of push and pop.
SeqMaxPush == 7
MaxCalls == 14
\* Calls of push in a behaviour of the specifications with fairness: with
\* consumers, and of two producers alone.
LiveMaxPush == 3
LiveMaxPushMP == 4

\* The threads: as many as the tests of src/tests/loom_queue.rs run.
Threads == {1, 2, 3}
Null == 0

\* --------------------------------------------------------------- bit helpers

\* x >> MARK_BIT_SHIFT
Shr(x) == x \div (2 ^ MARK_BIT_SHIFT)
\* x & bit != 0, for a single-bit mask
HasBit(x, bit) == (x \div bit) % 2 = 1
\* x | bit, for a single-bit mask
SetBit(x, bit) == IF HasBit(x, bit) THEN x ELSE x + bit
\* x & !bit, for a single-bit mask
ClearBit(x, bit) == IF HasBit(x, bit) THEN x - bit ELSE x

\* (index >> MARK_BIT_SHIFT) % NODE_SIZE
Offset(index) == Shr(index) % NODE_SIZE

\* -------------------------------------------------------------------- state

VARIABLES
    head,        \* Inner.head: [index, node]
    tail,        \* Inner.tail: [index, node]
    nodes,       \* the heap: node id -> [next, state, item]
    freed,       \* ids of the nodes drain has freed
    th,          \* per thread: position and locals of the running call; `claim`
                 \* (the rank of a pop's head claim) and `before` (the items whose
                 \* push had returned when this push was called) are history
    own,         \* own[t]: thread t holds a Queue handle (a clone of the Arc)
    role,        \* role[t]: the calls thread t's program makes ("push", "pop", "any")
    alive,       \* the Inner has not been dropped
    maxPush,     \* calls of push this behaviour may make
    maxCalls,    \* calls a single-threaded behaviour may make
    prod,        \* history: prod[x] is the thread that pushed item x
    tailClaims,  \* history: items in the order of successful CAS on tail.index
    headClaims,  \* history: number of successful CAS on head.index
    out,         \* history: <<n, x>>: the pop of the n-th head claim returned x
    hist,        \* history of a single-threaded run: the calls in order
    fault        \* history: memory errors seen ("uaf", "double_free", "uninit")

vars == <<head, tail, nodes, freed, th, own, role, alive, maxPush, maxCalls, prod, tailClaims,
          headClaims, out, hist, fault>>

\* Node::new / Node::UNINIT with Slot::new / Slot::UNINIT
NewNode ==
    [next |-> Null,
     state |-> [i \in 1..NODE_CAPACITY |-> 0],
     item |-> [i \in 1..NODE_CAPACITY |-> 0]]

\* The locals of a thread outside a call.
IdleThread ==
    [pc |-> "idle", index |-> 0, node |-> Null, next_index |-> 0,
     next_node |-> Null, item |-> 0, i |-> 0, claim |-> 0, before |-> {}]

\* Inner::new, behind Queue::new, with a handle cloned to each of `n` threads.
InitWith(roles, pushes, calls) ==
    /\ head = [index |-> 0, node |-> 1]
    /\ tail = [index |-> 0, node |-> 1]
    /\ nodes = <<NewNode>>
    /\ freed = {}
    /\ th = [t \in Threads |-> IdleThread]
    /\ own = [t \in Threads |-> roles[t] # "none"]
    /\ role = roles
    /\ alive = TRUE
    /\ maxPush = pushes
    /\ maxCalls = calls
    /\ prod = <<>>
    /\ tailClaims = <<>>
    /\ headClaims = 0
    /\ out = {}
    /\ hist = <<>>
    /\ fault = {}

\* One producer and two consumers (test_spmc), or two producers and one
\* consumer (test_mpsc); a thread calls pop as often as it likes.
RolesSPMC == <<"push", "pop", "pop">>
RolesMPSC == <<"push", "push", "pop">>
RolesSeq == <<"any", "none", "none">>
RolesMP == <<"push", "push", "none">>

\* A single-threaded run (test_spsc, the doc-tests): its calls are recorded.
InitSeq == InitWith(RolesSeq, SeqMaxPush, MaxCalls)

Init ==
    \/ InitWith(RolesSPMC, MaxPush, 0)
    \/ InitWith(RolesMPSC, MaxPushMP, 0)
    \/ InitSeq

Sequential == Cardinality({t \in Threads : role[t] # "none"}) = 1

\* ------------------------------------------------------------ memory access

Live(n) == n \in 1..Len(nodes) /\ n \notin freed

\* What an access to node n leaves in `fault`.
Touch(n) == IF Live(n) THEN fault ELSE fault \cup {"uaf"}

\* The values a load of (*n).next can return.
LoadNext(n) == IF Live(n) THEN {nodes[n].next} ELSE 0..Len(nodes)

\* The values a load of slot.state can return (slot i of node n, i in 1..K).
LoadState(n, i) == IF Live(n) THEN {nodes[n].state[i]} ELSE 0..7

\* The values slot.item.read().assume_init() can return.
ReadItem(n, i) ==
    IF Live(n) /\ nodes[n].item[i] # 0 THEN {nodes[n].item[i]} ELSE 0..maxPush

\* Faulty variant: a store of the bit where the code has a fetch_or.
StoreState(n, i, bit) ==
    IF Live(n)
    THEN [nodes EXCEPT ![n].state[i] = bit]
    ELSE nodes

\* slot.state.fetch_or(bit): the heap afterwards.
FetchOrState(n, i, bit) ==
    IF Live(n)
    THEN [nodes EXCEPT ![n].state[i] = SetBit(@, bit)]
    ELSE nodes

Set(t, fields) == [th EXCEPT ![t] = fields @@ th[t]]
Return(t) == [th EXCEPT ![t] = IdleThread]

HistoryUnchanged == UNCHANGED <<prod, tailClaims, headClaims, out, hist, fault>>
HandlesUnchanged == UNCHANGED <<own, role, alive, maxPush, maxCalls>>

\* The positions of a thread inside Inner::push.
PushPcs == {"push_node", "push_index", "push_cas", "push_store_tail_node",
            "push_fetch_add", "push_store_next", "push_write", "push_filled"}

InPush(t) == th[t].pc \in PushPcs

\* -------------------------------------------------------------- Inner::push

\* Queue::push -> Inner::push: tail_index = self.tail.index.load(Acquire)
PushCall(t) ==
    /\ th[t].pc = "idle" /\ own[t] /\ alive
    /\ role[t] \in {"push", "any"}
    /\ Len(prod) < maxPush
    /\ Sequential => Len(hist) < maxCalls
    /\ th' = Set(t, [pc |-> "push_node", item |-> Len(prod) + 1,
                     index |-> tail.index,
                     before |-> (1..Len(prod)) \
                                {th[u].item : u \in {v \in Threads : InPush(v)}}])
    /\ prod' = Append(prod, t)
    /\ hist' = IF Sequential THEN Append(hist, <<"push", Len(prod) + 1>>) ELSE hist
    /\ UNCHANGED <<head, tail, nodes, freed, tailClaims, headClaims, out, fault>>
    /\ HandlesUnchanged

\* Faulty variant: the sentinel offset is not tested.
PushLoadNodeNoSentinelTest(t) ==
    /\ th[t].pc = "push_node"
    /\ th' = Set(t, [node |-> tail.node, pc |-> "push_cas"])
    /\ UNCHANGED <<head, tail, nodes, freed>>
    /\ HistoryUnchanged /\ HandlesUnchanged

\* tail_node = self.tail.node.load(Acquire), then the test of the loop's top:
\* at the sentinel offset the thread yields and loads the index again.
PushLoadNode(t) ==
    /\ th[t].pc = "push_node"
    /\ th' = Set(t, [node |-> tail.node,
                     pc |-> IF Offset(th[t].index) = NODE_CAPACITY
                            THEN "push_index" ELSE "push_cas"])
    /\ UNCHANGED <<head, tail, nodes, freed>>
    /\ HistoryUnchanged /\ HandlesUnchanged

\* thread::yield_now(); tail_index = self.tail.index.load(Acquire)
PushLoadIndex(t) ==
    /\ th[t].pc = "push_index"
    /\ th' = Set(t, [pc |-> "push_node", index |-> tail.index])
    /\ UNCHANGED <<head, tail, nodes, freed>>
    /\ HistoryUnchanged /\ HandlesUnchanged

\* Faulty variant: a successor is installed one slot too early.
PushAfterCasTooEarly(offset) ==
    IF offset + 2 = NODE_CAPACITY THEN "push_store_tail_node" ELSE "push_write"

\* After a successful CAS: install a successor when the last slot was claimed.
PushAfterCas(offset) ==
    IF offset + 1 = NODE_CAPACITY THEN "push_store_tail_node" ELSE "push_write"

\* Faulty variant: the index is stored without being compared.
PushCasNoCompare(t) ==
    /\ th[t].pc = "push_cas"
    /\ tail' = [tail EXCEPT !.index = th[t].index + 2 ^ MARK_BIT_SHIFT]
    /\ th' = Set(t, [pc |-> PushAfterCas(Offset(th[t].index))])
    /\ tailClaims' = Append(tailClaims, th[t].item)
    /\ UNCHANGED <<head, nodes, freed, prod, headClaims, out, hist, fault>>
    /\ HandlesUnchanged

\* self.tail.index.compare_exchange_weak(tail_index, tail_index + (1 << 1))
PushCas(t) ==
    /\ th[t].pc = "push_cas"
    /\ IF tail.index = th[t].index
       THEN /\ tail' = [tail EXCEPT !.index = th[t].index + 2 ^ MARK_BIT_SHIFT]
            /\ th' = Set(t, [pc |-> PushAfterCas(Offset(th[t].index))])
            /\ tailClaims' = Append(tailClaims, th[t].item)
       ELSE /\ th' = Set(t, [pc |-> "push_node", index |-> tail.index])
            /\ UNCHANGED <<tail, tailClaims>>
    /\ UNCHANGED <<head, nodes, freed, prod, headClaims, out, hist, fault>>
    /\ HandlesUnchanged

\* compare_exchange_weak may fail although the value is the expected one.
PushCasSpurious(t) ==
    /\ th[t].pc = "push_cas"
    /\ tail.index = th[t].index
    /\ th' = Set(t, [pc |-> "push_node"])
    /\ UNCHANGED <<head, tail, nodes, freed>>
    /\ HistoryUnchanged /\ HandlesUnchanged

\* Faulty variant: the new node is not stored into tail.node.
PushStoreTailNodeSkipped(t) ==
    /\ th[t].pc = "push_store_tail_node"
    /\ nodes' = Append(nodes, NewNode)
    /\ th' = Set(t, [pc |-> "push_fetch_add", next_node |-> Len(nodes) + 1])
    /\ UNCHANGED <<head, tail, freed>>
    /\ HistoryUnchanged /\ HandlesUnchanged

\* next_node = Box::into_raw(..); self.tail.node.store(next_node, Release)
PushStoreTailNode(t) ==
    /\ th[t].pc = "push_store_tail_node"
    /\ nodes' = Append(nodes, NewNode)
    /\ tail' = [tail EXCEPT !.node = Len(nodes) + 1]
    /\ th' = Set(t, [pc |-> "push_fetch_add", next_node |-> Len(nodes) + 1])
    /\ UNCHANGED <<head, freed>>
    /\ HistoryUnchanged /\ HandlesUnchanged

\* Faulty variant: the index is left at the sentinel offset.
PushFetchAddSkipped(t) ==
    /\ th[t].pc = "push_fetch_add"
    /\ th' = Set(t, [pc |-> "push_store_next"])
    /\ UNCHANGED <<head, tail, nodes, freed>>
    /\ HistoryUnchanged /\ HandlesUnchanged

\* Faulty variant: the increment is not shifted by MARK_BIT_SHIFT.
PushFetchAddUnshifted(t) ==
    /\ th[t].pc = "push_fetch_add"
    /\ tail' = [tail EXCEPT !.index = @ + 1]
    /\ th' = Set(t, [pc |-> "push_store_next"])
    /\ UNCHANGED <<head, nodes, freed>>
    /\ HistoryUnchanged /\ HandlesUnchanged

\* self.tail.index.fetch_add(1 << MARK_BIT_SHIFT, Release)
PushFetchAdd(t) ==
    /\ th[t].pc = "push_fetch_add"
    /\ tail' = [tail EXCEPT !.index = @ + 2 ^ MARK_BIT_SHIFT]
    /\ th' = Set(t, [pc |-> "push_store_next"])
    /\ UNCHANGED <<head, nodes, freed>>
    /\ HistoryUnchanged /\ HandlesUnchanged

\* Faulty variant: the new node is not linked to the old one.
PushStoreNextSkipped(t) ==
    /\ th[t].pc = "push_store_next"
    /\ th' = Set(t, [pc |-> "push_write", next_node |-> Null])
    /\ UNCHANGED <<head, tail, nodes, freed>>
    /\ HistoryUnchanged /\ HandlesUnchanged

\* (*tail_node).next.store(next_node, Release)
PushStoreNext(t) ==
    /\ th[t].pc = "push_store_next"
    /\ nodes' = IF Live(th[t].node)
                THEN [nodes EXCEPT ![th[t].node].next = th[t].next_node]
                ELSE nodes
    /\ fault' = Touch(th[t].node)
    /\ th' = Set(t, [pc |-> "push_write", next_node |-> Null])
    /\ UNCHANGED <<head, tail, freed, prod, tailClaims, headClaims, out, hist>>
    /\ HandlesUnchanged

\* Faulty variant: the slot is taken from the node tail.node points to now.
PushWriteUsesTailNode(t) ==
    /\ th[t].pc = "push_write"
    /\ nodes' = IF Live(tail.node)
                THEN [nodes EXCEPT ![tail.node].item[Offset(th[t].index) + 1] = th[t].item]
                ELSE nodes
    /\ fault' = Touch(tail.node)
    /\ th' = Set(t, [pc |-> "push_filled"])
    /\ UNCHANGED <<head, tail, freed, prod, tailClaims, headClaims, out, hist>>
    /\ HandlesUnchanged

\* slot.item.with_mut(|p| p.write(MaybeUninit::new(item)))
PushWrite(t) ==
    /\ th[t].pc = "push_write"
    /\ nodes' = IF Live(th[t].node)
                THEN [nodes EXCEPT ![th[t].node].item[Offset(th[t].index) + 1] = th[t].item]
                ELSE nodes
    /\ fault' = Touch(th[t].node)
    /\ th' = Set(t, [pc |-> "push_filled"])
    /\ UNCHANGED <<head, tail, freed, prod, tailClaims, headClaims, out, hist>>
    /\ HandlesUnchanged

\* slot.state.fetch_or(FILLED, Release); return
PushFilled(t) ==
    /\ th[t].pc = "push_filled"
    /\ nodes' = FetchOrState(th[t].node, Offset(th[t].index) + 1, FILLED)
    /\ fault' = Touch(th[t].node)
    /\ th' = Return(t)
    /\ UNCHANGED <<head, tail, freed, prod, tailClaims, headClaims, out, hist>>
    /\ HandlesUnchanged

Push(t) ==
    \/ PushCall(t)
    \/ PushLoadNode(t)
    \/ PushLoadIndex(t)
    \/ PushCas(t)
    \/ PushCasSpurious(t)
    \/ PushStoreTailNode(t)
    \/ PushFetchAdd(t)
    \/ PushStoreNext(t)
    \/ PushWrite(t)
    \/ PushFilled(t)

\* --------------------------------------------------------------- Node::drain

\* Faulty variant: the node is freed without looking at the slots' readers.
DrainFromFreesAtOnce(i) == "drain_free"

\* Node::drain(node, start) from the loop's index i on: past the last
\* inspected slot (NODE_CAPACITY - 2) the node is freed.
DrainFrom(i) == IF i < NODE_CAPACITY - 1 THEN "drain_load" ELSE "drain_free"

\* Some(item) is returned to the caller of pop.
PopReturn(t) ==
    /\ th' = Return(t)
    /\ out' = out \cup {<<th[t].claim, th[t].item>>}
    /\ hist' = IF Sequential THEN Append(hist, <<"pop", th[t].item>>) ELSE hist

\* Faulty variant: the load tests FILLED where it has to test READING.
DrainLoadTestsFilled(t) ==
    /\ th[t].pc = "drain_load"
    /\ \E s \in LoadState(th[t].node, th[t].i + 1) :
          th' = Set(t, IF HasBit(s, FILLED)
                       THEN [pc |-> DrainFrom(th[t].i + 1), i |-> th[t].i + 1]
                       ELSE [pc |-> "drain_fetch_or"])
    /\ fault' = Touch(th[t].node)
    /\ UNCHANGED <<head, tail, nodes, freed, prod, tailClaims, headClaims, out, hist>>
    /\ HandlesUnchanged

\* slot.state.load(Acquire) & READING == 0 (the first operand of the &&)
DrainLoad(t) ==
    /\ th[t].pc = "drain_load"
    /\ \E s \in LoadState(th[t].node, th[t].i + 1) :
          th' = Set(t, IF HasBit(s, READING)
                       THEN [pc |-> DrainFrom(th[t].i + 1), i |-> th[t].i + 1]
                       ELSE [pc |-> "drain_fetch_or"])
    /\ fault' = Touch(th[t].node)
    /\ UNCHANGED <<head, tail, nodes, freed, prod, tailClaims, headClaims, out, hist>>
    /\ HandlesUnchanged

\* Faulty variant: the drain goes on whatever the fetch_or returns.
DrainFetchOrIgnoresResult(t) ==
    /\ th[t].pc = "drain_fetch_or"
    /\ nodes' = FetchOrState(th[t].node, th[t].i + 1, DRAINING)
    /\ fault' = Touch(th[t].node)
    /\ th' = Set(t, [pc |-> DrainFrom(th[t].i + 1), i |-> th[t].i + 1])
    /\ UNCHANGED <<head, tail, freed, prod, tailClaims, headClaims, out, hist>>
    /\ HandlesUnchanged

\* slot.state.fetch_or(DRAINING, AcqRel) & READING == 0: return without freeing
DrainFetchOr(t) ==
    /\ th[t].pc = "drain_fetch_or"
    /\ nodes' = FetchOrState(th[t].node, th[t].i + 1, DRAINING)
    /\ fault' = Touch(th[t].node)
    /\ \E s \in LoadState(th[t].node, th[t].i + 1) :
          IF HasBit(s, READING)
          THEN /\ th' = Set(t, [pc |-> DrainFrom(th[t].i + 1), i |-> th[t].i + 1])
               /\ UNCHANGED <<out, hist>>
          ELSE PopReturn(t)
    /\ UNCHANGED <<head, tail, freed, prod, tailClaims, headClaims>>
    /\ HandlesUnchanged

\* drop(Box::from_raw(node))
DrainFree(t) ==
    /\ th[t].pc = "drain_free"
    /\ freed' = freed \cup {th[t].node}
    /\ fault' = IF Live(th[t].node) THEN fault ELSE fault \cup {"double_free"}
    /\ PopReturn(t)
    /\ UNCHANGED <<head, tail, nodes, prod, tailClaims, headClaims>>
    /\ HandlesUnchanged

\* --------------------------------------------------------------- Inner::pop

\* Queue::pop -> Inner::pop: head_index = self.head.index.load(Acquire)
PopCall(t) ==
    /\ th[t].pc = "idle" /\ own[t] /\ alive
    /\ role[t] \in {"pop", "any"}
    /\ Sequential => Len(hist) + 1 <= maxCalls
    /\ th' = Set(t, [pc |-> "pop_node", index |-> head.index])
    /\ UNCHANGED <<head, tail, nodes, freed>>
    /\ HistoryUnchanged /\ HandlesUnchanged

\* head_node = self.head.node.load(Acquire), then the tests of the loop's top:
\* at the sentinel offset the thread yields and loads the index again; with
\* the mark bit set the empty check is skipped.
PopLoadNode(t) ==
    /\ th[t].pc = "pop_node"
    /\ th' = Set(t, [node |-> head.node,
                     next_index |-> th[t].index + 2 ^ MARK_BIT_SHIFT,
                     pc |-> IF Offset(th[t].index) = NODE_CAPACITY THEN "pop_index"
                            ELSE IF HasBit(th[t].index + 2 ^ MARK_BIT_SHIFT, MARK_BIT)
                                 THEN "pop_cas" ELSE "pop_tail"])
    /\ UNCHANGED <<head, tail, nodes, freed>>
    /\ HistoryUnchanged /\ HandlesUnchanged

\* thread::yield_now(); head_index = self.head.index.load(Acquire)
PopLoadIndex(t) ==
    /\ th[t].pc = "pop_index"
    /\ th' = Set(t, [pc |-> "pop_node", index |-> head.index])
    /\ UNCHANGED <<head, tail, nodes, freed>>
    /\ HistoryUnchanged /\ HandlesUnchanged

\* Faulty variant: the empty check is off by one.
IsEmptyOffByOne(head_index, tail_index) == Shr(head_index) + 1 >= Shr(tail_index)

\* The empty check: head_index >> 1 == tail_index >> 1
IsEmpty(head_index, tail_index) == Shr(head_index) = Shr(tail_index)

\* The node check: head and tail are not pointing to the same node.
OtherNode(head_index, tail_index) ==
    Shr(head_index) \div NODE_SIZE # Shr(tail_index) \div NODE_SIZE

\* Faulty variant: the empty check is not made, the CAS is tried at once.
PopLoadTailNoEmptyCheck(t) ==
    /\ th[t].pc = "pop_tail"
    /\ th' = Set(t, [pc |-> "pop_cas",
                     next_index |-> IF OtherNode(th[t].index, tail.index)
                                    THEN SetBit(th[t].next_index, MARK_BIT)
                                    ELSE th[t].next_index])
    /\ UNCHANGED <<head, tail, nodes, freed>>
    /\ HistoryUnchanged /\ HandlesUnchanged

\* fence(SeqCst); tail_index = self.tail.index.load(Acquire); return None when
\* the queue is empty, set MARK_BIT in next_head_index when the tail is in
\* another node.
PopLoadTail(t) ==
    /\ th[t].pc = "pop_tail"
    /\ IF IsEmpty(th[t].index, tail.index)
       THEN th' = Set(t, [pc |-> "pop_none"])
       ELSE th' = Set(t, [pc |-> "pop_cas",
                          next_index |-> IF OtherNode(th[t].index, tail.index)
                                         THEN SetBit(th[t].next_index, MARK_BIT)
                                         ELSE th[t].next_index])
    /\ UNCHANGED <<head, tail, nodes, freed>>
    /\ HistoryUnchanged /\ HandlesUnchanged

\* return None
PopReturnNone(t) ==
    /\ th[t].pc = "pop_none"
    /\ th' = Return(t)
    /\ hist' = IF Sequential THEN Append(hist, <<"pop", 0>>) ELSE hist
    /\ UNCHANGED <<head, tail, nodes, freed, prod, tailClaims, headClaims, out, fault>>
    /\ HandlesUnchanged

\* After a successful CAS: move the head to the next node when the last slot
\* of the node was claimed.
PopAfterCas(offset) ==
    IF offset + 1 = NODE_CAPACITY THEN "pop_wait_next" ELSE "pop_wait_filled"

\* Faulty variant: the index is stored without being compared.
PopCasNoCompare(t) ==
    /\ th[t].pc = "pop_cas"
    /\ head' = [head EXCEPT !.index = th[t].next_index]
    /\ th' = Set(t, [pc |-> PopAfterCas(Offset(th[t].index)),
                     claim |-> headClaims + 1])
    /\ headClaims' = headClaims + 1
    /\ UNCHANGED <<tail, nodes, freed, prod, tailClaims, out, hist, fault>>
    /\ HandlesUnchanged

\* Faulty variant: the CAS is retried with the same expected index until it
\* succeeds.
PopCasNoReload(t) ==
    /\ th[t].pc = "pop_cas"
    /\ head.index = th[t].index
    /\ head' = [head EXCEPT !.index = th[t].next_index]
    /\ th' = Set(t, [pc |-> PopAfterCas(Offset(th[t].index)),
                     claim |-> headClaims + 1])
    /\ headClaims' = headClaims + 1
    /\ UNCHANGED <<tail, nodes, freed, prod, tailClaims, out, hist, fault>>
    /\ HandlesUnchanged

\* Faulty variant: after a failed CAS the node is not loaded again.
PopCasKeepsNode(t) ==
    /\ th[t].pc = "pop_cas"
    /\ IF head.index = th[t].index
       THEN /\ head' = [head EXCEPT !.index = th[t].next_index]
            /\ th' = Set(t, [pc |-> PopAfterCas(Offset(th[t].index)),
                             claim |-> headClaims + 1])
            /\ headClaims' = headClaims + 1
       ELSE /\ th' = Set(t, [index |-> head.index,
                             next_index |-> head.index + 2 ^ MARK_BIT_SHIFT,
                             pc |-> IF Offset(head.index) = NODE_CAPACITY THEN "pop_index"
                                    ELSE IF HasBit(head.index, MARK_BIT)
                                         THEN "pop_cas" ELSE "pop_tail"])
            /\ UNCHANGED <<head, headClaims>>
    /\ UNCHANGED <<tail, nodes, freed, prod, tailClaims, out, hist, fault>>
    /\ HandlesUnchanged

\* self.head.index.compare_exchange_weak(head_index, next_head_index)
PopCas(t) ==
    /\ th[t].pc = "pop_cas"
    /\ IF head.index = th[t].index
       THEN /\ head' = [head EXCEPT !.index = th[t].next_index]
            /\ th' = Set(t, [pc |-> PopAfterCas(Offset(th[t].index)),
                             claim |-> headClaims + 1])
            /\ headClaims' = headClaims + 1
       ELSE /\ th' = Set(t, [pc |-> "pop_node", index |-> head.index])
            /\ UNCHANGED <<head, headClaims>>
    /\ UNCHANGED <<tail, nodes, freed, prod, tailClaims, out, hist, fault>>
    /\ HandlesUnchanged

\* compare_exchange_weak may fail although the value is the expected one.
PopCasSpurious(t) ==
    /\ th[t].pc = "pop_cas"
    /\ head.index = th[t].index
    /\ th' = Set(t, [pc |-> "pop_node"])
    /\ UNCHANGED <<head, tail, nodes, freed>>
    /\ HistoryUnchanged /\ HandlesUnchanged

\* (*head_node).wait_next(): spins until next is not null
PopWaitNext(t) ==
    /\ th[t].pc = "pop_wait_next"
    /\ \E n \in LoadNext(th[t].node) :
          /\ n # Null
          /\ th' = Set(t, [pc |-> "pop_next_next", next_node |-> n])
    /\ fault' = Touch(th[t].node)
    /\ UNCHANGED <<head, tail, nodes, freed, prod, tailClaims, headClaims, out, hist>>
    /\ HandlesUnchanged

\* Faulty variant: the mark bit is not removed at the node transition.
PopLoadNextNextKeepsMark(t) ==
    /\ th[t].pc = "pop_next_next"
    /\ \E n \in LoadNext(th[t].next_node) :
          th' = Set(t, [pc |-> "pop_store_head_node",
                        next_index |->
                            IF n # Null
                            THEN SetBit(th[t].next_index + 2 ^ MARK_BIT_SHIFT, MARK_BIT)
                            ELSE th[t].next_index + 2 ^ MARK_BIT_SHIFT])
    /\ fault' = Touch(th[t].next_node)
    /\ UNCHANGED <<head, tail, nodes, freed, prod, tailClaims, headClaims, out, hist>>
    /\ HandlesUnchanged

\* next_index = (next_head_index & !MARK_BIT) + (1 << 1), with MARK_BIT when
\* (*next_node).next.load(Relaxed) is not null
PopLoadNextNext(t) ==
    /\ th[t].pc = "pop_next_next"
    /\ \E n \in LoadNext(th[t].next_node) :
          th' = Set(t, [pc |-> "pop_store_head_node",
                        next_index |->
                            IF n # Null
                            THEN SetBit(ClearBit(th[t].next_index, MARK_BIT)
                                        + 2 ^ MARK_BIT_SHIFT, MARK_BIT)
                            ELSE ClearBit(th[t].next_index, MARK_BIT)
                                 + 2 ^ MARK_BIT_SHIFT])
    /\ fault' = Touch(th[t].next_node)
    /\ UNCHANGED <<head, tail, nodes, freed, prod, tailClaims, headClaims, out, hist>>
    /\ HandlesUnchanged

\* Faulty variant: the next node is not stored into head.node.
PopStoreHeadNodeSkipped(t) ==
    /\ th[t].pc = "pop_store_head_node"
    /\ th' = Set(t, [pc |-> "pop_store_head_index", next_node |-> Null])
    /\ UNCHANGED <<head, tail, nodes, freed>>
    /\ HistoryUnchanged /\ HandlesUnchanged

\* self.head.node.store(next_node, Release)
PopStoreHeadNode(t) ==
    /\ th[t].pc = "pop_store_head_node"
    /\ head' = [head EXCEPT !.node = th[t].next_node]
    /\ th' = Set(t, [pc |-> "pop_store_head_index", next_node |-> Null])
    /\ UNCHANGED <<tail, nodes, freed>>
    /\ HistoryUnchanged /\ HandlesUnchanged

\* self.head.index.store(next_index, Release)
PopStoreHeadIndex(t) ==
    /\ th[t].pc = "pop_store_head_index"
    /\ head' = [head EXCEPT !.index = th[t].next_index]
    /\ th' = Set(t, [pc |-> "pop_wait_filled"])
    /\ UNCHANGED <<tail, nodes, freed>>
    /\ HistoryUnchanged /\ HandlesUnchanged

\* Faulty variant: the pop does not wait for FILLED.
PopWaitFilledNoWait(t) ==
    /\ th[t].pc = "pop_wait_filled"
    /\ th' = Set(t, [pc |-> "pop_read"])
    /\ fault' = Touch(th[t].node)
    /\ UNCHANGED <<head, tail, nodes, freed, prod, tailClaims, headClaims, out, hist>>
    /\ HandlesUnchanged

\* slot.wait_filled(): spins until state & FILLED != 0
PopWaitFilled(t) ==
    /\ th[t].pc = "pop_wait_filled"
    /\ \E s \in LoadState(th[t].node, Offset(th[t].index) + 1) :
          /\ HasBit(s, FILLED)
          /\ th' = Set(t, [pc |-> "pop_read"])
    /\ fault' = Touch(th[t].node)
    /\ UNCHANGED <<head, tail, nodes, freed, prod, tailClaims, headClaims, out, hist>>
    /\ HandlesUnchanged

\* item = slot.item.with(|p| p.read().assume_init()); the last slot's reader
\* goes on to Node::drain(head_node, 0)
PopRead(t) ==
    /\ th[t].pc = "pop_read"
    /\ \E x \in ReadItem(th[t].node, Offset(th[t].index) + 1) :
          th' = Set(t, [item |-> x,
                        pc |-> IF Offset(th[t].index) + 1 = NODE_CAPACITY
                               THEN DrainFrom(0) ELSE "pop_reading"])
    /\ fault' = IF ~Live(th[t].node) THEN fault \cup {"uaf"}
                ELSE IF nodes[th[t].node].item[Offset(th[t].index) + 1] = 0
                     THEN fault \cup {"uninit"} ELSE fault
    /\ UNCHANGED <<head, tail, nodes, freed, prod, tailClaims, headClaims, out, hist>>
    /\ HandlesUnchanged

\* Faulty variant: the pop returns whatever the fetch_or returns, the drain
\* is never resumed.
PopFetchOrReadingNoResume(t) ==
    /\ th[t].pc = "pop_reading"
    /\ nodes' = FetchOrState(th[t].node, Offset(th[t].index) + 1, READING)
    /\ fault' = Touch(th[t].node)
    /\ PopReturn(t)
    /\ UNCHANGED <<head, tail, freed, prod, tailClaims, headClaims>>
    /\ HandlesUnchanged

\* Faulty variant: the result of the fetch_or is tested for FILLED where it
\* has to be tested for DRAINING.
PopFetchOrReadingTestsFilled(t) ==
    /\ th[t].pc = "pop_reading"
    /\ nodes' = FetchOrState(th[t].node, Offset(th[t].index) + 1, READING)
    /\ fault' = Touch(th[t].node)
    /\ \E s \in LoadState(th[t].node, Offset(th[t].index) + 1) :
          IF HasBit(s, FILLED)
          THEN /\ th' = Set(t, [pc |-> DrainFrom(Offset(th[t].index) + 1),
                                i |-> Offset(th[t].index) + 1])
               /\ UNCHANGED <<out, hist>>
          ELSE PopReturn(t)
    /\ UNCHANGED <<head, tail, freed, prod, tailClaims, headClaims>>
    /\ HandlesUnchanged

\* slot.state.fetch_or(READING, AcqRel) & DRAINING != 0: go on with
\* Node::drain(head_node, offset + 1); otherwise return Some(item)
PopFetchOrReading(t) ==
    /\ th[t].pc = "pop_reading"
    /\ nodes' = FetchOrState(th[t].node, Offset(th[t].index) + 1, READING)
    /\ fault' = Touch(th[t].node)
    /\ \E s \in LoadState(th[t].node, Offset(th[t].index) + 1) :
          IF HasBit(s, DRAINING)
          THEN /\ th' = Set(t, [pc |-> DrainFrom(Offset(th[t].index) + 1),
                                i |-> Offset(th[t].index) + 1])
               /\ UNCHANGED <<out, hist>>
          ELSE PopReturn(t)
    /\ UNCHANGED <<head, tail, freed, prod, tailClaims, headClaims>>
    /\ HandlesUnchanged

Pop(t) ==
    \/ PopCall(t)
    \/ PopLoadNode(t)
    \/ PopLoadIndex(t)
    \/ PopLoadTail(t)
    \/ PopReturnNone(t)
    \/ PopCas(t)
    \/ PopCasSpurious(t)
    \/ PopWaitNext(t)
    \/ PopLoadNextNext(t)
    \/ PopStoreHeadNode(t)
    \/ PopStoreHeadIndex(t)
    \/ PopWaitFilled(t)
    \/ PopRead(t)
    \/ PopFetchOrReading(t)
    \/ DrainLoad(t)
    \/ DrainFetchOr(t)
    \/ DrainFree(t)

Next == \E t \in Threads : Push(t) \/ Pop(t)

Spec == Init /\ [][Next]_vars

\* ------------------------------------------------------------------ handles

\* #[derive(Clone)] on Queue: Arc::clone of the Inner, handed to thread u.
Clone(t, u) ==
    /\ own[t] /\ ~own[u] /\ role[u] # "none"
    /\ own' = [own EXCEPT ![u] = TRUE]
    /\ UNCHANGED <<head, tail, nodes, freed, th, role, alive, maxPush, maxCalls>>
    /\ HistoryUnchanged

\* A Queue handle goes out of scope. Dropping the last one drops the Inner,
\* which has no Drop of its own: its fields are two cursors of an AtomicUsize
\* and an AtomicPtr each, and dropping a raw pointer frees nothing.
DropHandle(t) ==
    /\ own[t] /\ th[t].pc = "idle"
    /\ own' = [own EXCEPT ![t] = FALSE]
    /\ alive' = \E u \in Threads \ {t} : own[u]
    /\ UNCHANGED <<head, tail, nodes, freed, th, role, maxPush, maxCalls>>
    /\ HistoryUnchanged

\* The payloads whose destructor the queue has run: a slot keeps its item in
\* a MaybeUninit, which drops nothing, and no code of the queue drops an item
\* in place.
Dropped == {}

\* ----------------------------------------------------------------- fairness

Step(t) == Push(t) \/ Pop(t)

\* The successful outcome of the two compare_exchange_weak.
PushCasOk(t) == PushCas(t) /\ tail.index = th[t].index
PopCasOk(t) == PopCas(t) /\ head.index = th[t].index

\* The scheduler runs every thread of T again and again (thread::yield_now
\* in the spin loops hands the processor over), and a compare_exchange_weak
\* does not fail spuriously for ever.
Fair(T) ==
    /\ \A t \in T : WF_vars(Step(t))
    /\ \A t \in T : SF_vars(PushCasOk(t))
    /\ \A t \in T : SF_vars(PopCasOk(t))

InitLive ==
    \/ InitWith(RolesSPMC, LiveMaxPush, 0)
    \/ InitWith(RolesMPSC, LiveMaxPush, 0)
    \/ InitWith(RolesMP, LiveMaxPushMP, 0)

\* Every thread is scheduled fairly.
FairSpec == InitLive /\ [][Next]_vars /\ Fair(Threads)

\* Thread 1, a producer, may be suspended at any point and never run again;
\* the other threads are scheduled fairly.
SuspendSpec == InitLive /\ [][Next]_vars /\ Fair(Threads \ {1})

NextDrop ==
    \/ Next
    \/ \E t, u \in Threads : Clone(t, u)
    \/ \E t \in Threads : DropHandle(t)

\* The threads call push and pop, clone their handles and drop them.
DropSpec == InitLive /\ [][NextDrop]_vars

\* ------------------------------------------------------------ observations

InPop(t) == th[t].pc \notin PushPcs \cup {"idle"}

AllIdle == \A t \in Threads : th[t].pc = "idle"
NoPushRunning == \A t \in Threads : ~InPush(t)

\* How many pops have returned Some(x).
Returned(x) == Cardinality({p \in out : p[2] = x})

\* The items whose push has been called.
Pushed == 1..Len(prod)

\* A pop called in this state by a thread running alone returns None: the
\* head is not at the sentinel, the empty check is made and finds the queue
\* empty.
PopFindsEmpty ==
    /\ Offset(head.index) # NODE_CAPACITY
    /\ ~HasBit(head.index, MARK_BIT)
    /\ IsEmpty(head.index, tail.index)

\* ------------------------------------------------------------------ claims

\* C1: no item is lost, duplicated or invented: at every moment each popped
\* item is a pushed item and was returned by one pop only, and once every
\* push has returned and the pops have drained the queue (no call is running
\* and a pop finds the queue empty), the multiset of the items returned by
\* pops equals the multiset of the items pushed.
C1_PoppedEqualsPushed ==
    /\ \A p \in out : p[2] \in Pushed /\ Returned(p[2]) = 1
    /\ (AllIdle /\ PopFindsEmpty) => \A x \in Pushed : Returned(x) = 1

\* C1 witness: both scenarios' last state, all items pushed and popped with
\* two consumers at work.
C1_Witness ==
    /\ AllIdle /\ PopFindsEmpty
    /\ role = RolesSPMC
    /\ Len(prod) = MaxPush /\ Cardinality(out) = MaxPush

\* C2: items leave in the order of the successful CAS on tail.index: the pop
\* that made the n-th successful claim on head.index returns the item of the
\* push that made the n-th successful claim on tail.index.
C2_ClaimOrder ==
    \A p \in out : p[1] \in 1..Len(tailClaims) /\ p[2] = tailClaims[p[1]]

\* C2 witness: two producers whose CAS succeeded in the reverse of the order
\* of their calls, and the single consumer has returned both items.
C2_Witness ==
    /\ role = RolesMPSC
    /\ Len(tailClaims) >= 2 /\ tailClaims[1] = 2 /\ tailClaims[2] = 1
    /\ {<<1, 2>>, <<2, 1>>} \subseteq out

\* C3: per-producer FIFO: of two items pushed by the same producer, the one
\* pushed first is claimed by the earlier pop (items are numbered in the
\* order of the calls of push).
C3_PerProducerFifo ==
    \A p, q \in out :
        (/\ p[2] \in Pushed /\ q[2] \in Pushed
         /\ prod[p[2]] = prod[q[2]]
         /\ p[2] < q[2]) => p[1] < q[1]

\* C3 witness: the single consumer has returned two items of one producer
\* and, between them, an item of the other producer.
C3_Witness ==
    /\ role = RolesMPSC
    /\ \E p, q, r \in out :
          /\ p[1] < q[1] /\ q[1] < r[1]
          /\ prod[p[2]] = prod[r[2]] /\ prod[q[2]] # prod[p[2]]

\* The ideal unbounded FIFO: the sequence left by the calls of h, or
\* Mismatch when a pop of h did not return what the sequence gives
\* (its oldest item, None when it is empty).
Mismatch == <<-1>>

RECURSIVE Replay(_, _)
Replay(h, fifo) ==
    IF h = <<>> THEN fifo
    ELSE IF Head(h)[1] = "push" THEN Replay(Tail(h), Append(fifo, Head(h)[2]))
    ELSE IF fifo = <<>>
         THEN IF Head(h)[2] = 0 THEN Replay(Tail(h), fifo) ELSE Mismatch
         ELSE IF Head(h)[2] = Head(fifo) THEN Replay(Tail(h), Tail(fifo))
              ELSE Mismatch

\* C4: in a single-threaded run every pop returns what the ideal FIFO
\* sequence returns: its oldest item, or None when it is empty.
C4_SequentialFifo ==
    Sequential => Replay(hist, <<>>) # Mismatch

\* C4 witness: a single-threaded run whose first pop found a fresh queue
\* empty, which then pushed and popped across two node boundaries, and whose
\* last pop found the queue empty again.
C4_Witness ==
    /\ Sequential /\ AllIdle
    /\ Len(hist) >= 4
    /\ hist[1] = <<"pop", 0>> /\ hist[2] = <<"push", 1>> /\ hist[3] = <<"pop", 1>>
    /\ hist[Len(hist)] = <<"pop", 0>>
    /\ Cardinality(out) >= 2 * NODE_CAPACITY
    /\ Cardinality(freed) = 2

\* C5: a pop returns None only if, at the moment it loaded tail.index, the
\* head sequence number equalled the tail sequence number; so a pop that
\* loads the tail while no push is running returns None only when every
\* pushed item has been claimed by a pop.
C5_NoneOnlyWhenEmpty ==
    [][\A t \in Threads :
          (th[t].pc = "pop_tail" /\ th'[t].pc = "pop_none") =>
              /\ Shr(head.index) = Shr(tail.index)
              /\ NoPushRunning => headClaims = Len(prod)]_vars

\* C5 witness: with two consumers, a pop is returning None after as many
\* items as a node holds were pushed and claimed.
C5_Witness ==
    /\ role = RolesSPMC
    /\ Len(prod) = NODE_CAPACITY /\ headClaims = NODE_CAPACITY
    /\ \E t \in Threads : th[t].pc = "pop_none" /\ th[t].index = head.index

\* All pushes have returned and as many pops have returned Some as there
\* were pushes.
AllPopped == NoPushRunning /\ Cardinality(out) = Len(prod)

\* C6: once all pushes have returned and as many pops have returned Some,
\* a pop finds the queue empty: the head is neither at the sentinel nor
\* marked, it equals the tail, and a pop that has loaded this head index is
\* on the straight way to None (it neither yields nor tries the CAS).
C6_FurtherPopsReturnNone ==
    AllPopped =>
        /\ PopFindsEmpty
        /\ \A t \in Threads :
              (InPop(t) /\ th[t].index = head.index) =>
                  th[t].pc \in {"pop_node", "pop_tail", "pop_none"}

\* C6 witness: two full nodes were pushed and popped, head and tail sit at
\* offset 0 of the third node, and a further pop is returning None.
C6_Witness ==
    /\ AllPopped
    /\ Len(prod) = 2 * NODE_CAPACITY
    /\ head.node = 3 /\ tail.node = 3 /\ Offset(head.index) = 0
    /\ \E t \in Threads : th[t].pc = "pop_none" /\ th[t].index = head.index

\* C7: push has no failure outcome: with every thread scheduled fairly every
\* call of push returns, and at its return the item is stored in a slot of
\* an allocated node whose FILLED bit is set.
C7_PushReturns ==
    /\ \A t \in Threads : InPush(t) ~> (th[t].pc = "idle")
    /\ [][\A t \in Threads :
            (InPush(t) /\ th'[t].pc = "idle") =>
                \E n \in 1..Len(nodes') \ freed' : \E i \in 1..NODE_CAPACITY :
                    /\ nodes'[n].item[i] = th[t].item
                    /\ HasBit(nodes'[n].state[i], FILLED)]_vars

\* C7 witness: two producers have returned from all their calls, one of
\* which installed the second node.
C7_Witness ==
    /\ role = RolesMPSC
    /\ Len(prod) = maxPush /\ NoPushRunning
    /\ Len(nodes) = 2
    /\ \E x, y \in Pushed : prod[x] # prod[y]
    /\ \A x \in Pushed : \E n \in 1..Len(nodes) \ freed : \E i \in 1..NODE_CAPACITY :
          nodes[n].item[i] = x /\ HasBit(nodes[n].state[i], FILLED)

\* C8: with every thread scheduled fairly every call of pop returns (Some
\* or None), and consumers that keep calling pop while the producers push
\* eventually obtain every item.
C8_PopReturns ==
    /\ \A t \in Threads : InPop(t) ~> (th[t].pc = "idle")
    /\ <>(\/ \A t \in Threads : role[t] # "pop"
          \/ \A x \in 1..maxPush : Returned(x) = 1)

\* C8 witness: the consumer has obtained every item of the two producers
\* and is idle again.
C8_Witness ==
    /\ role = RolesMPSC
    /\ Cardinality(out) = LiveMaxPush
    /\ AllIdle /\ freed = {1}

\* C9: a thread suspended for ever inside a call does not keep the calls of
\* the other threads from completing: with thread 1 possibly suspended and
\* the others scheduled fairly, every call of another thread returns.
C9_OthersComplete ==
    \A t \in Threads \ {1} : (th[t].pc # "idle") ~> (th[t].pc = "idle")

\* C10: dropping the last handle destroys the queue: every node still
\* allocated is freed and the destructor of every payload that was pushed
\* and never popped is run.
C10_LastDropDestroys ==
    ~alive =>
        /\ \A n \in 1..Len(nodes) : n \in freed
        /\ \A x \in Pushed : Returned(x) = 0 => x \in Dropped

\* The node that holds the slot of an index: nodes are numbered in the order
\* of their allocation and each spans NODE_SIZE sequence numbers.
NodeOf(index) == Shr(index) \div NODE_SIZE + 1

\* The rank of an index among the data-slot sequence numbers (the sentinel
\* offsets left out), counted from 1.
SlotRank(index) == (Shr(index) \div NODE_SIZE) * NODE_CAPACITY + Offset(index) + 1

\* Thread t of a pop holds a claimed slot whose payload it has not read yet.
BeforeRead(t) ==
    th[t].pc \in {"pop_wait_next", "pop_next_next", "pop_store_head_node",
                  "pop_store_head_index", "pop_wait_filled", "pop_read"}

\* C11: a slot's payload is written once, by the push whose CAS on
\* tail.index claimed the slot, and read at most once, by the pop whose CAS
\* on head.index claimed it: a push writes the slot of the node and offset
\* of its own claim, which nobody wrote before; a pop reads the slot of its
\* own claim, and no two pops hold the same claim or the same slot.
C11_SlotWrittenOnceReadOnce ==
    /\ [][\A t \in Threads :
            /\ (th[t].pc = "push_write" /\ th'[t].pc = "push_filled") =>
                  /\ Live(th[t].node) /\ th[t].node = NodeOf(th[t].index)
                  /\ nodes[th[t].node].item[Offset(th[t].index) + 1] = 0
                  /\ tailClaims[SlotRank(th[t].index)] = th[t].item
            /\ (th[t].pc = "pop_read" /\ th'[t].pc # "pop_read") =>
                  /\ Live(th[t].node) /\ th[t].node = NodeOf(th[t].index)
                  /\ th[t].claim = SlotRank(th[t].index)
                  /\ \A p \in out : p[1] # th[t].claim
                  /\ \A u \in Threads \ {t} :
                        /\ th[u].claim # th[t].claim
                        /\ InPop(u) /\ th[u].claim # 0 =>
                              SlotRank(th[u].index) # SlotRank(th[t].index)]_vars

\* C11 witness: two consumers hold slots of the same node, one about to read
\* its payload and the other past its read.
C11_Witness ==
    \E t, u \in Threads :
        /\ t # u /\ th[t].pc = "pop_read" /\ th[u].pc = "pop_reading"
        /\ th[t].node = th[u].node /\ th[t].index # th[u].index
        /\ Len(tailClaims) >= 2

\* Thread t of a push has claimed a slot and not yet returned.
AfterPushCas(t) ==
    th[t].pc \in {"push_store_tail_node", "push_fetch_add", "push_store_next",
                  "push_write", "push_filled"}

\* Thread t of a pop has read the payload of its slot and not yet returned.
AfterRead(t) == th[t].pc \in {"pop_reading", "drain_load", "drain_fetch_or", "drain_free"}

\* C12: a node is freed at most once, and only after every pop that claimed
\* one of its slots has read its payload and every push that claimed one of
\* its slots has written it: at the step that frees node n, n is allocated
\* and not freed, all K slots of n are written and FILLED, each of their
\* items was returned by a pop or is held by a pop past its read, and no
\* other thread holds a claimed slot of n that it still has to write or read.
C12_FreedOnceAfterReaders ==
    /\ [][\A t \in Threads : (th[t].pc = "drain_free" /\ th'[t].pc # "drain_free") =>
            LET n == th[t].node IN
            /\ Live(n)
            /\ \A i \in 1..NODE_CAPACITY :
                  /\ nodes[n].item[i] # 0 /\ HasBit(nodes[n].state[i], FILLED)
                  /\ \/ Returned(nodes[n].item[i]) = 1
                     \/ \E u \in Threads : AfterRead(u) /\ th[u].item = nodes[n].item[i]
            /\ \A u \in Threads \ {t} :
                  /\ ~(BeforeRead(u) /\ th[u].node = n)
                  /\ ~(AfterPushCas(u) /\ th[u].node = n)]_vars
    /\ []("double_free" \notin fault)

\* C12 witness: the first node has been freed after a drain that found a
\* slot still in use and was resumed by that slot's reader.
C12_Witness ==
    /\ freed = {1}
    /\ \E i \in 1..NODE_CAPACITY : HasBit(nodes[1].state[i], DRAINING)

\* C13: no thread accesses a slot's item, a slot's state or a node's next
\* pointer after the node was freed: every access of push, pop, wait_next,
\* wait_filled and drain records a freed target in `fault`, and none is
\* ever recorded; nor does a thread that is about to make such an access
\* point to a freed node.
C13_NoUseAfterFree ==
    /\ "uaf" \notin fault
    /\ \A t \in Threads :
          /\ th[t].pc \in {"push_store_next", "push_write", "push_filled",
                            "pop_wait_next", "pop_wait_filled", "pop_read",
                            "pop_reading", "drain_load", "drain_fetch_or"}
                => Live(th[t].node)
          /\ th[t].pc = "pop_next_next" => Live(th[t].next_node)

\* C13 witness: a consumer is still at work in the second node, on a slot it
\* claimed, after the first node was freed.
C13_Witness ==
    /\ freed = {1}
    /\ \E t \in Threads : th[t].pc \in {"pop_wait_filled", "pop_read", "pop_reading"}
                              /\ th[t].node = 2
    /\ \E t \in Threads : th[t].pc \in {"push_write", "push_filled"}

\* C14: no node is freed while a slot of it has FILLED set and READING
\* clear: every slot of a freed node whose FILLED bit is set has its READING
\* bit set (a freed node keeps the state its slots had when it was freed).
C14_FreedSlotsAllReading ==
    \A n \in freed : \A i \in 1..NODE_CAPACITY :
        HasBit(nodes[n].state[i], FILLED) => HasBit(nodes[n].state[i], READING)

\* C14 as amended: the slots of a freed node at the offsets 0..K-2 have
\* FILLED and READING set; the last slot, whose reader calls drain without
\* setting READING, has FILLED set and READING clear, and its payload was
\* read before the node was freed (returned by a pop, or held by the pop
\* that read it).
C14_FreedSlotsReadingButLast ==
    \A n \in freed :
        /\ \A i \in 1..NODE_CAPACITY - 1 :
              HasBit(nodes[n].state[i], FILLED) /\ HasBit(nodes[n].state[i], READING)
        /\ HasBit(nodes[n].state[NODE_CAPACITY], FILLED)
        /\ ~HasBit(nodes[n].state[NODE_CAPACITY], READING)
        /\ \/ Returned(nodes[n].item[NODE_CAPACITY]) = 1
           \/ \E u \in Threads : AfterRead(u) /\ th[u].item = nodes[n].item[NODE_CAPACITY]

\* C14 witness: two nodes have been freed, by two consumers taking turns.
C14_Witness ==
    /\ freed = {1, 2} /\ role = RolesSPMC
    /\ \E i \in 1..NODE_CAPACITY : HasBit(nodes[2].state[i], DRAINING)

\* C15: the flags of a slot are set in the order FILLED, READING, DRAINING:
\* READING is never set with FILLED clear, DRAINING never with READING
\* clear, so a slot's state is one of 0b000, 0b001, 0b011 and 0b111.
C15_FlagsInStrictOrder ==
    \A n \in 1..Len(nodes) : \A i \in 1..NODE_CAPACITY :
        /\ HasBit(nodes[n].state[i], READING) => HasBit(nodes[n].state[i], FILLED)
        /\ HasBit(nodes[n].state[i], DRAINING) => HasBit(nodes[n].state[i], READING)
        /\ nodes[n].state[i] \in {0, FILLED, FILLED + READING, FILLED + READING + DRAINING}

\* C16: slot state never decreases: in every step, each of the bits FILLED,
\* READING and DRAINING that is set in a slot of an allocated node before
\* the step is still set after it.
C16_StateNeverDecreases ==
    [][\A n \in 1..Len(nodes) : \A i \in 1..NODE_CAPACITY :
         \A bit \in {FILLED, READING, DRAINING} :
            HasBit(nodes[n].state[i], bit) => HasBit(nodes'[n].state[i], bit)]_vars

\* C16 witness: a slot has gone through all its steps and has the three
\* bits set, while another slot of the node has FILLED and READING only.
C16_Witness ==
    \E n \in 1..Len(nodes) : \E i, j \in 1..NODE_CAPACITY :
        /\ nodes[n].state[i] = FILLED + READING + DRAINING
        /\ nodes[n].state[j] = FILLED + READING

\* C17: a pop reads a slot's payload only when the slot's FILLED bit is set,
\* and what it reads is the item written by the push that claimed the same
\* sequence number: at the step that reads, the slot is FILLED and holds
\* the item of the tail claim of the reader's rank, which is the value read;
\* no read of an unwritten payload is ever recorded.
C17_ReadsOnlyFilled ==
    /\ [][\A t \in Threads : (th[t].pc = "pop_read" /\ th'[t].pc # "pop_read") =>
            LET n == th[t].node
                i == Offset(th[t].index) + 1 IN
            /\ Live(n) /\ HasBit(nodes[n].state[i], FILLED)
            /\ th[t].claim \in 1..Len(tailClaims)
            /\ nodes[n].item[i] = tailClaims[th[t].claim]
            /\ th'[t].item = tailClaims[th[t].claim]]_vars
    /\ []("uninit" \notin fault)

\* C17 witness: a consumer has claimed a slot that its producer has not
\* written yet, and waits for FILLED.
C17_Witness ==
    \E t, u \in Threads :
        /\ th[t].pc = "pop_wait_filled" /\ th[u].pc = "push_write"
        /\ th[t].node = th[u].node /\ Offset(th[t].index) = Offset(th[u].index)
        /\ nodes[th[t].node].item[Offset(th[t].index) + 1] = 0

\* The sequence number of slot i of node n.
SeqOfSlot(n, i) == (n - 1) * NODE_SIZE + i - 1

\* The sequence numbers at which item x is stored: slot i of node n is the
\* slot of sequence number (n - 1) * NODE_SIZE + i - 1.
StoredAt(x) ==
    {SeqOfSlot(q[1], q[2]) :
        q \in {r \in (1..Len(nodes)) \X (1..NODE_CAPACITY) : nodes[r[1]].item[r[2]] = x}}

\* The push of item x has returned.
PushReturned(x) == x \in Pushed /\ \A t \in Threads : ~(InPush(t) /\ th[t].item = x)

\* C18: each push stores its item at a sequence number of its own, greater
\* than that of every push that had returned when it was called: a push
\* that has stored its item has stored it in one slot, above the items of
\* the pushes that returned before it was called, and the item of a push
\* that returned is stored in one slot (no other push took its slot).
C18_PushSeqOrder ==
    [](/\ \A t \in Threads : InPush(t) =>
             \A n \in 1..Len(nodes) : \A i \in 1..NODE_CAPACITY :
                nodes[n].item[i] = th[t].item =>
                   \A m \in 1..Len(nodes) : \A j \in 1..NODE_CAPACITY :
                      /\ nodes[m].item[j] = th[t].item => (m = n /\ j = i)
                      /\ nodes[m].item[j] \in th[t].before =>
                            SeqOfSlot(m, j) < SeqOfSlot(n, i)
       /\ \A y \in Pushed : PushReturned(y) => Cardinality(StoredAt(y)) = 1)

\* C18 witness: two producers; a push has stored its item above the item of
\* a push of the other producer that returned before it was called, and
\* below the item of a push that was called before it and was still running.
C18_Witness ==
    \E t \in Threads :
        /\ th[t].pc = "push_filled"
        /\ \E x \in th[t].before : prod[x] # t
        /\ \E x \in 1..(th[t].item - 1) : \E sx \in StoredAt(x) :
              x \notin th[t].before /\ \A sy \in StoredAt(th[t].item) : sy < sx

\* C19: a node's next pointer changes once, from null to its successor, and
\* a successor is allocated and linked only by the push whose CAS claimed
\* the offset K-1 of the node: a step that changes next of node n finds it
\* null and is the step of a push holding that claim, which stores the node
\* it allocated, the next in allocation order; a step that allocates a node
\* is the step of a push holding the claim of the offset K-1 of the node
\* allocated last; and there is one successor per K tail claims.
C19_NextSetOnce ==
    /\ [][/\ \A n \in 1..Len(nodes) :
             nodes'[n].next # nodes[n].next =>
                /\ nodes[n].next = Null /\ nodes'[n].next = n + 1
                /\ n + 1 \in 1..Len(nodes)
                /\ \E t \in Threads :
                      /\ th[t].pc = "push_store_next" /\ th'[t].pc = "push_write"
                      /\ th[t].node = n /\ th[t].next_node = n + 1
                      /\ Offset(th[t].index) = NODE_CAPACITY - 1
                      /\ NodeOf(th[t].index) = n
          /\ Len(nodes') # Len(nodes) =>
                /\ Len(nodes') = Len(nodes) + 1
                /\ \E t \in Threads :
                      /\ th[t].pc = "push_store_tail_node"
                      /\ th[t].node = Len(nodes)
                      /\ Offset(th[t].index) = NODE_CAPACITY - 1
                      /\ NodeOf(th[t].index) = Len(nodes)]_vars
    /\ [](Len(nodes) = Len(tailClaims) \div NODE_CAPACITY + 1
            \/ \E t \in Threads : th[t].pc = "push_store_tail_node")

\* C19 witness: the second producer claimed the last slot of the first node,
\* has allocated the second node and linked it, and is about to write.
C19_Witness ==
    /\ Len(nodes) = 2 /\ nodes[1].next = 2 /\ nodes[2].next = Null
    /\ role = RolesMPSC
    /\ Len(tailClaims) >= NODE_CAPACITY /\ prod[tailClaims[NODE_CAPACITY]] = 2
    /\ \E t \in Threads : th[t].pc = "push_write" /\ Offset(th[t].index) = NODE_CAPACITY - 1

\* Thread t is inside a call and has no step to take until another thread
\* takes one: it is in a loop that yields until a value another thread has
\* to store is there.  (At the sentinel offset a push or a pop yields and
\* loads the index again; that loop goes through "push_index" or
\* "pop_index" and is never without a step.)
Blocked(t) == th[t].pc # "idle" /\ ~ENABLED Step(t)

\* C20: an operation waits for another thread at three places only, the
\* producer and the consumer at the sentinel offset and the consumer
\* awaiting FILLED on the slot it claimed: besides the two loops at the
\* sentinel, a thread without a step of its own is in wait_filled.
C20_ThreeWaits ==
    \A t \in Threads : Blocked(t) => th[t].pc = "pop_wait_filled"

\* C20 as amended: there is a fourth place, Node::wait_next, where the
\* consumer that claimed the last slot of a node awaits the node's next
\* pointer; a thread without a step of its own is in wait_filled on a slot
\* that is not FILLED or in wait_next on a node whose next is null, and a
\* thread yields at the top of its loop only with its index at the sentinel.
C20_FourWaits ==
    [](\A t \in Threads :
        /\ Blocked(t) =>
              \/ /\ th[t].pc = "pop_wait_filled"
                 /\ ~HasBit(nodes[th[t].node].state[Offset(th[t].index) + 1], FILLED)
              \/ /\ th[t].pc = "pop_wait_next"
                 /\ nodes[th[t].node].next = Null
        /\ th[t].pc \in {"push_index", "pop_index"} => Offset(th[t].index) = NODE_CAPACITY)

\* C20 witness: a consumer is in wait_next, with the next pointer null as the
\* producer has not linked the successor yet, while the other consumer
\* yields at the sentinel offset.
C20_Witness ==
    \E t, u \in Threads :
        /\ Blocked(t) /\ th[t].pc = "pop_wait_next"
        /\ th[u].pc = "pop_index" /\ Offset(head.index) = NODE_CAPACITY

\* C21: after the producer that claimed the offset K-1 has stored the new
\* node into tail.node, its increment of tail.index brings the tail offset
\* to the sentinel K.
C21_FetchAddToSentinel ==
    [][\A t \in Threads : (th[t].pc = "push_fetch_add" /\ th'[t].pc = "push_store_next") =>
            /\ tail.node = th[t].next_node
            /\ Offset(tail'.index) = NODE_CAPACITY]_vars

\* C21 as amended: it is the CAS that claims the offset K-1 that brings the
\* tail offset to the sentinel K; no CAS is attempted with the index at the
\* sentinel, so the other producers yield from then on; the increment, made
\* after the new node is stored into tail.node, finds the offset at K and
\* brings it to the offset 0 of the new node, and a push that claims a slot of
\* that node holds the new node.
C21_CasToSentinel ==
    /\ [][\A t \in Threads :
            /\ (th[t].pc = "push_cas" /\ AfterPushCas(t)') =>
                  /\ Offset(th[t].index) # NODE_CAPACITY
                  /\ Offset(th[t].index) = NODE_CAPACITY - 1 =>
                        (Offset(tail'.index) = NODE_CAPACITY /\ tail'.node = th[t].node)
                  /\ th[t].node = NodeOf(th[t].index)
            /\ (th[t].pc = "push_fetch_add" /\ th'[t].pc = "push_store_next") =>
                  /\ tail.node = th[t].next_node
                  /\ Offset(tail.index) = NODE_CAPACITY
                  /\ Offset(tail'.index) = 0
                  /\ NodeOf(tail'.index) = tail'.node]_vars
    /\ [](\A t \in Threads : th[t].pc = "push_cas" => Offset(th[t].index) # NODE_CAPACITY)

\* C21 witness: the tail offset is at the sentinel, the producer that claimed
\* the last slot has stored the new node and is about to increment the
\* index, and the other producer yields.
C21_Witness ==
    \E t, u \in Threads :
        /\ th[t].pc = "push_fetch_add" /\ tail.node = th[t].next_node
        /\ Offset(tail.index) = NODE_CAPACITY
        /\ th[u].pc = "push_index" /\ th[u].index = tail.index

\* C22: whenever head.index has MARK_BIT set, the tail cursor is in a later
\* node than the head cursor, and a pop that skips the empty check because of
\* MARK_BIT claims a sequence number that a producer has already claimed; the
\* MARK_BIT set at a head node transition is included, being stored into
\* head.index.
C22_MarkMeansLaterNode ==
    /\ [](HasBit(head.index, MARK_BIT) =>
            Shr(tail.index) \div NODE_SIZE > Shr(head.index) \div NODE_SIZE)
    /\ [][\A t \in Threads :
            (th[t].pc = "pop_cas" /\ BeforeRead(t)' /\ HasBit(th[t].index, MARK_BIT)) =>
                /\ Shr(th[t].index) < Shr(tail.index)
                /\ Shr(tail.index) \div NODE_SIZE > Shr(th[t].index) \div NODE_SIZE]_vars

\* C22 witness: a pop has claimed the first slot of a later node without the
\* empty check, MARK_BIT having been set at the head node transition.
C22_Witness ==
    \E t \in Threads :
        /\ th[t].pc = "pop_wait_filled"
        /\ HasBit(th[t].index, MARK_BIT)
        /\ Offset(th[t].index) = 0 /\ Shr(th[t].index) > 0

\* The pops that claimed the slots of node n, by the rank of their claim.
ClaimsOf(n) == ((n - 1) * NODE_CAPACITY + 1)..(n * NODE_CAPACITY)

\* The pop that made the c-th claim has returned.
PopReturned(c) == \E e \in out : e[1] = c

\* C23: no fully consumed node leaks: whenever all K pops that claimed the
\* slots of a node have returned, that node has been freed; and in a
\* quiescent state in which every pushed item has been popped, exactly one
\* node remains allocated.  When drain returns without freeing at a slot,
\* the consumer of that slot has not yet set READING, and a consumer that
\* finds DRAINING when it sets READING resumes the drain from the next
\* offset.
C23_NoLeak ==
    /\ [](/\ \A n \in 1..Len(nodes) :
                 (\A c \in ClaimsOf(n) : PopReturned(c)) => n \in freed
          /\ (AllIdle /\ AllPopped) => Len(nodes) - Cardinality(freed) = 1)
    /\ [][\A t \in Threads :
            /\ (th[t].pc = "drain_fetch_or" /\ th'[t].pc = "idle") =>
                  \E u \in Threads \ {t} :
                      /\ th[u].pc \in {"pop_wait_filled", "pop_read", "pop_reading"}
                      /\ th[u].node = th[t].node
                      /\ Offset(th[u].index) = th[t].i
            /\ (th[t].pc = "pop_reading" /\ th'[t].pc \notin {"pop_reading", "idle"}) =>
                  /\ th'[t].pc = DrainFrom(Offset(th[t].index) + 1)
                  /\ th'[t].i = Offset(th[t].index) + 1]_vars

\* C23 witness: all is quiet, every item has been popped, two nodes have
\* been freed, and the drain of one of them was handed over to the reader of
\* a slot that was still in use.
C23_Witness ==
    /\ AllIdle /\ AllPopped
    /\ freed = {1, 2} /\ Len(nodes) = 3
    /\ \E n \in freed : \E i \in 1..NODE_CAPACITY : HasBit(nodes[n].state[i], DRAINING)

\* The positions of a thread inside Node::drain.
DrainPcs == {"drain_load", "drain_fetch_or", "drain_free"}

\* The payload of the last slot (offset K-1) of node n has been read by the
\* pop that claimed it: that pop has returned, or is past its read, in the
\* drain it starts at offset 0.
LastSlotRead(n) ==
    \/ PopReturned(n * NODE_CAPACITY)
    \/ \E u \in Threads : /\ th[u].pc \in DrainPcs
                           /\ th[u].node = n
                           /\ Offset(th[u].index) = NODE_CAPACITY - 1

\* C24: reclamation of a node starts only once its last data slot has been
\* consumed: a slot of a node has DRAINING set, a drain is running on a node,
\* or a node is freed, only after the payload of the slot at offset K-1 of
\* that node has been read by the consumer that claimed it.
C24_DrainAfterLastRead ==
    [](\A n \in 1..Len(nodes) :
          (\/ \E i \in 1..NODE_CAPACITY : HasBit(nodes[n].state[i], DRAINING)
           \/ \E t \in Threads : th[t].pc \in DrainPcs /\ th[t].node = n
           \/ n \in freed)
          => (nodes[n].item[NODE_CAPACITY] # 0 /\ LastSlotRead(n)))

\* C24 witness: the consumer of an earlier slot has resumed the drain of a
\* node whose last slot's consumer has returned.
C24_Witness ==
    \E t \in Threads :
        /\ th[t].pc \in DrainPcs
        /\ Offset(th[t].index) < NODE_CAPACITY - 1
        /\ PopReturned(th[t].node * NODE_CAPACITY)
        /\ HasBit(nodes[th[t].node].state[Offset(th[t].index) + 1], DRAINING)

\* The positions at which a push or a pop accesses container[offset].
SlotPcs == {"push_write", "push_filled", "pop_wait_filled", "pop_read", "pop_reading"}

\* C25: every access to a node's container uses an offset in 0..K-1: no CAS
\* claims the sentinel offset K, a push writes and a pop reads at an offset
\* below K whatever the MARK_BIT of the index, and drain touches the offsets
\* start..K-2 only, with start <= K-1.
C25_OffsetsInRange ==
    [](\A t \in Threads :
          /\ th[t].pc \in {"push_cas", "pop_tail", "pop_cas"} =>
                Offset(th[t].index) # NODE_CAPACITY
          /\ th[t].pc \in SlotPcs => Offset(th[t].index) \in 0..(NODE_CAPACITY - 1)
          /\ th[t].pc \in {"drain_load", "drain_fetch_or"} =>
                th[t].i \in 0..(NODE_CAPACITY - 2)
          /\ th[t].pc \in DrainPcs =>
                /\ th[t].i \in 0..(NODE_CAPACITY - 1)
                /\ Offset(th[t].index) < NODE_CAPACITY - 1 => th[t].i > Offset(th[t].index))

\* C25 witness: a producer has found the tail at the sentinel offset and
\* yields, while a pop reads the last slot of a node with a marked index.
C25_Witness ==
    \E t, u \in Threads :
        /\ th[t].pc = "pop_read"
        /\ HasBit(th[t].index, MARK_BIT)
        /\ Offset(th[t].index) = NODE_CAPACITY - 1
        /\ th[u].pc = "push_index"

\* C26: in every reachable state the head sequence number is at most the
\* tail sequence number, also across node transitions and while a cursor is
\* at the sentinel offset, and a pop claims a sequence number only below the
\* tail sequence number: consumers never claim what producers have not yet
\* claimed.
C26_HeadAtMostTail ==
    /\ [](Shr(head.index) <= Shr(tail.index))
    /\ [][\A t \in Threads :
            (th[t].pc = "pop_cas" /\ BeforeRead(t)') =>
                /\ Shr(th[t].index) < Shr(tail.index)
                /\ headClaims' <= Len(tailClaims)]_vars

\* C26 witness: the head has caught up with the tail past a node
\* transition, and the tail has been at the sentinel offset with the head
\* in the same node.
C26_Witness ==
    /\ Shr(head.index) = Shr(tail.index)
    /\ Shr(head.index) >= NODE_SIZE
    /\ \E t \in Threads : th[t].pc = "push_index"

\* C27: cursor index and node pointer are consistent at every claim: while a
\* cursor's offset is not the sentinel K, cursor.node is the node of the
\* chain that owns the cursor's sequence number, and when a CAS on tail.index
\* or head.index succeeds, the node the thread holds is the node that owns
\* the claimed sequence number, although index and node are read by two
\* loads.
C27_CursorConsistent ==
    /\ [](/\ Offset(tail.index) # NODE_CAPACITY => tail.node = NodeOf(tail.index)
          /\ Offset(head.index) # NODE_CAPACITY => head.node = NodeOf(head.index))
    /\ [][\A t \in Threads :
            /\ (th[t].pc = "push_cas" /\ AfterPushCas(t)') =>
                  th[t].node = NodeOf(th[t].index)
            /\ (th[t].pc = "pop_cas" /\ BeforeRead(t)') =>
                  th[t].node = NodeOf(th[t].index)]_vars

\* C27 witness: a pop is about to try its CAS with an index of one node and
\* the pointer of the next node, its two loads having been separated by a
\* head node transition, while the pop that made the transition holds its
\* claim.
C27_Witness ==
    \E t, u \in Threads :
        /\ th[t].pc = "pop_cas"
        /\ th[t].node # NodeOf(th[t].index)
        /\ BeforeRead(u) /\ th[u].node = NodeOf(th[u].index)

\* The nodes met from node n on through at most k next pointers, n
\* included; the walk stops at a null pointer and at a freed node.
RECURSIVE ChainFrom(_, _)
ChainFrom(n, k) ==
    IF n = Null \/ ~Live(n) \/ k = 0
    THEN {}
    ELSE {n} \cup ChainFrom(nodes[n].next, k - 1)

\* The nodes reachable from head.node through next pointers.
HeadChain == ChainFrom(head.node, Len(nodes))

\* C28: head.node and tail.node never point to a freed node: in every
\* reachable state both cursors reference an allocated node, the tail's node
\* is reachable from the head's node through next pointers, and at least one
\* node is allocated.
C28_TailReachableFromHead ==
    /\ Live(head.node) /\ Live(tail.node)
    /\ tail.node \in HeadChain
    /\ Len(nodes) - Cardinality(freed) >= 1

\* C28 as amended: both cursors reference an allocated node and at least
\* one node is allocated; the tail's node is reachable from the head's node
\* through next pointers, except between the store of a new node into
\* tail.node and the store of the same node into its predecessor's next:
\* then the predecessor, held by the installing producer, is reachable from
\* the head's node and is the last node of that chain.
C28_CursorsLive ==
    [](/\ Live(head.node) /\ Live(tail.node)
       /\ Len(nodes) - Cardinality(freed) >= 1
       /\ \/ tail.node \in HeadChain
          \/ \E t \in Threads :
                /\ th[t].pc \in {"push_fetch_add", "push_store_next"}
                /\ th[t].next_node = tail.node
                /\ th[t].node \in HeadChain
                /\ nodes[th[t].node].next = Null)

\* C28 witness: a node has been freed, the head is in the last node of its
\* chain, and the producer that claimed that node's last slot has stored
\* the new node into tail.node and not yet into the next pointer.
C28_Witness ==
    /\ freed # {}
    /\ tail.node \notin HeadChain
    /\ \E t \in Threads : th[t].pc = "push_store_next" /\ th[t].node = head.node

====
